---- MODULE Spec2Model ----
(***************************************************************************)
(* Model of receptor.py: the C-STORE handler (handle_store) of a DICOM     *)
(* receiver, run by concurrent association threads over one filesystem.    *)
(*                                                                         *)
(* Text the program computes with is a sequence of one-character strings.  *)
(* A path is the sequence of its segments from the filesystem root, each   *)
(* segment a string.  A file name is bound to an inode; an inode holds the *)
(* sequence of blocks written to it.                                       *)
(***************************************************************************)
EXTENDS Integers, Sequences, FiniteSets, TLC

\* ------------------------------------------------------------------ bounds
\* Number of association threads that may run handle_store at once.
NumProcs == 2
\* Number of write() calls the serialisation of one object takes.
NumChunks == 2
\* Longest text, before padding, handed to clean_filename and shorten_uid.
MaxTextLen == 2

\* ------------------------------------------------------- program constants
MAX_FOLDER_LENGTH == 50
UID_SUFFIX_LENGTH == 12
ZFILL_WIDTH == 4
STATUS_SUCCESS == 0
STATUS_C001 == 49153
STATUS_C002 == 49154
STATUS_C003 == 49155
NO_STATUS == -1

StatusCodes == {STATUS_SUCCESS, STATUS_C001, STATUS_C002, STATUS_C003}

\* --------------------------------------------------------------- text
Whitespace == {" ", "\t", "\n"}
Forbidden == {"\\", "/", "*", "?", ":", "\"", "<", ">", "|", "^"}

DEFAULT_NAME == <<"S","i","n","_","n","o","m","b","r","e">>
DEFAULT_ID == <<"S","i","n","_","I","D">>
DEFAULT_MODALITY == <<"X","X">>
DEFAULT_INSTANCE == <<"0">>
DEFAULT_DATE == <<>>
DCM_SUFFIX == <<".","d","c","m">>
OUTPUT_FOLDER == <<"e","s","t","u","d","i","o","s","_","r","e","c","i","b","i","d","o","s">>
UID_PREFIX == <<"1",".","2",".","8","2","6",".","0",".","1",".","3","6","8","0","0","4","3",".","8",".","4","9","8",".">>

Digit(n) == CASE n = 0 -> "0" [] n = 1 -> "1" [] n = 2 -> "2" [] n = 3 -> "3"
              [] n = 4 -> "4" [] n = 5 -> "5" [] n = 6 -> "6" [] n = 7 -> "7"
              [] n = 8 -> "8" [] n = 9 -> "9"

RECURSIVE NatToStr(_)
NatToStr(n) == IF n < 10 THEN <<Digit(n)>>
               ELSE NatToStr(n \div 10) \o <<Digit(n % 10)>>

\* str() of an integer value
IntToStr(n) == IF n < 0 THEN <<"-">> \o NatToStr(-n) ELSE NatToStr(n)

RECURSIVE Zeros(_)
Zeros(k) == IF k <= 0 THEN <<>> ELSE <<"0">> \o Zeros(k - 1)

\* str.zfill(width): pad with zeros on the left, after a leading sign
Zfill(s, width) ==
    IF Len(s) >= width THEN s
    ELSE IF Len(s) > 0 /\ s[1] \in {"+", "-"}
         THEN <<s[1]>> \o Zeros(width - Len(s)) \o Tail(s)
         ELSE Zeros(width - Len(s)) \o s

ReplaceChars_ForbiddenOnly(s) ==
    [i \in 1..Len(s) |-> IF s[i] \in Forbidden THEN "_" ELSE s[i]]

\* re.sub(r'[\\/*?:"<>|^]', "_", name) followed by replace(" ", "_")
ReplaceChars(s) ==
    [i \in 1..Len(s) |-> IF s[i] \in Forbidden \/ s[i] = " " THEN "_" ELSE s[i]]

RECURSIVE LStrip(_)
LStrip(s) == IF s # <<>> /\ s[1] \in Whitespace THEN LStrip(Tail(s)) ELSE s

RECURSIVE RStrip(_)
RStrip(s) == IF s # <<>> /\ s[Len(s)] \in Whitespace
             THEN RStrip(SubSeq(s, 1, Len(s) - 1)) ELSE s

\* str.strip()
Strip(s) == RStrip(LStrip(s))

Prefix_OneMore(s, n) == SubSeq(s, 1, IF Len(s) < n + 1 THEN Len(s) ELSE n + 1)

\* name[:n]
Prefix(s, n) == SubSeq(s, 1, IF Len(s) < n THEN Len(s) ELSE n)

clean_filename(name) ==
    IF name = <<>> THEN DEFAULT_NAME
    ELSE Prefix(Strip(ReplaceChars(name)), MAX_FOLDER_LENGTH)

shorten_uid_Head(uid) ==
    IF Len(uid) > UID_SUFFIX_LENGTH THEN SubSeq(uid, 1, UID_SUFFIX_LENGTH) ELSE uid

shorten_uid(uid) ==
    IF Len(uid) > UID_SUFFIX_LENGTH
    THEN SubSeq(uid, Len(uid) - UID_SUFFIX_LENGTH + 1, Len(uid))
    ELSE uid

\* generate_uid(): the n-th identifier the generator hands out
generate_uid(n) == UID_PREFIX \o NatToStr(n)

\* --------------------------------------------------------------- paths
RECURSIVE SplitSegments(_, _)
\* the segments of s between "/" characters, cur being the segment in progress;
\* empty segments and "." are dropped as pathlib does
SplitSegments(s, cur) ==
    LET flush == IF cur = <<>> \/ cur = <<".">> THEN <<>> ELSE <<cur>>
    IN  IF s = <<>> THEN flush
        ELSE IF s[1] = "/" THEN flush \o SplitSegments(Tail(s), <<>>)
        ELSE SplitSegments(Tail(s), Append(cur, s[1]))

RECURSIVE ToStr(_)
\* the string made of the characters of s
ToStr(s) == IF s = <<>> THEN "" ELSE s[1] \o ToStr(Tail(s))

\* the path a text denotes: whether it is absolute, and its segments
PathParts(folder) ==
    LET segs == SplitSegments(folder, <<>>)
    IN  [abs |-> folder # <<>> /\ folder[1] = "/",
         segs |-> [i \in 1..Len(segs) |-> ToStr(segs[i])]]

\* path / folder: an absolute right operand replaces the left one
PathJoin(path, parts) == IF parts.abs THEN parts.segs ELSE path \o parts.segs

\* the working directory of the server process
Cwd == <<"srv">>

\* Path(OUTPUT_FOLDER).absolute()
BasePath == PathJoin(Cwd, PathParts(OUTPUT_FOLDER))

\* every proper and improper ancestor of a path, the root excluded
Ancestors(path) == {SubSeq(path, 1, k) : k \in 1..Len(path)}

Parent(path) == SubSeq(path, 1, Len(path) - 1)

\* ------------------------------------------------------------ datasets
\* An IncomingInstance: the attribute mapping of event.dataset and the bytes
\* its serialisation writes (blob names them).  A key outside DOMAIN attrs is
\* an absent attribute; a present text attribute may be empty.
UID_STUDY_1 == <<"1",".","2",".","8","4","0",".","1","0","0","0","8",".","9","9","9","9","9","9","9","9","9","9","9","9">>
UID_SERIES_1 == <<"1",".","2",".","8","4","0",".","1","0","0","0","8",".","5",".","1",".","4",".","7","7">>
UID_SOP_1 == <<"1",".","2",".","8","4","0",".","1","0","0","0","8",".","5",".","1",".","4",".","1",".","1",".","2",".","3","1">>
UID_SOP_2 == <<"1",".","9",".","8","4","0",".","1","0","0","0","8",".","5",".","1",".","4",".","1",".","1",".","2",".","3","1">>
TXT_P1 == <<"P","1">>
TXT_JOHN_DOE == <<"J","o","h","n"," ","D","o","e">>
TXT_CT == <<"C","T">>
TXT_DATE == <<"2","0","2","4","0","1","0","1">>
TXT_DATE_SLASHES == <<"2","0","2","4","/","0","1","/","0","1">>

AttrsFull(sop) ==
    [k \in {"PatientID", "PatientName", "StudyInstanceUID", "SeriesInstanceUID",
            "SOPInstanceUID", "Modality", "InstanceNumber", "StudyDate"} |->
        CASE k = "PatientID" -> TXT_P1
          [] k = "PatientName" -> TXT_JOHN_DOE
          [] k = "StudyInstanceUID" -> UID_STUDY_1
          [] k = "SeriesInstanceUID" -> UID_SERIES_1
          [] k = "SOPInstanceUID" -> sop
          [] k = "Modality" -> TXT_CT
          [] k = "InstanceNumber" -> 3
          [] k = "StudyDate" -> TXT_DATE]

Restrict(f, keys) == [k \in keys |-> f[k]]

\* scenario A of the specification
DsA == [attrs |-> AttrsFull(UID_SOP_1), blob |-> "a"]
\* another object whose SOP Instance UID ends in the same 12 characters
DsB == [attrs |-> AttrsFull(UID_SOP_2), blob |-> "b"]
\* an object without Series and SOP Instance UID, patient name and date
DsNoUid == [attrs |-> Restrict(AttrsFull(UID_SOP_1),
                               {"PatientID", "StudyInstanceUID", "Modality", "InstanceNumber"}),
            blob |-> "c"]
\* an object whose Study Instance UID is present with a zero-length value
\* and whose Study Date is written with path separators
DsEmptyUid == [attrs |-> [AttrsFull(UID_SOP_1) EXCEPT !["StudyInstanceUID"] = <<>>,
                                                      !["StudyDate"] = TXT_DATE_SLASHES],
               blob |-> "d"]

\* the objects a sender may push, by name
Datasets == {"A", "B", "NoUid", "EmptyUid"}

Dataset(name) ==
    CASE name = "A" -> DsA
      [] name = "B" -> DsB
      [] name = "NoUid" -> DsNoUid
      [] name = "EmptyUid" -> DsEmptyUid

NoDs == "none"

DsGet_Default(attrs, key, default) == default

\* ds.get(key, default)
DsGet(attrs, key, default) == IF key \in DOMAIN attrs THEN attrs[key] ELSE default

get_patient_folder_name(attrs) ==
    LET patient_id == clean_filename(DsGet(attrs, "PatientID", DEFAULT_ID))
        patient_name == clean_filename(DsGet(attrs, "PatientName", DEFAULT_NAME))
    IN  patient_name \o <<"_">> \o patient_id

\* lines 99-125 of handle_store: the locals derived from the dataset, n being
\* the number of identifiers the generator has handed out before the call
DeriveLocation(attrs, n) ==
    LET study_uid == shorten_uid(DsGet(attrs, "StudyInstanceUID", generate_uid(n + 1)))
        series_uid == shorten_uid(DsGet(attrs, "SeriesInstanceUID", generate_uid(n + 2)))
        sop_instance_uid == shorten_uid(DsGet(attrs, "SOPInstanceUID", generate_uid(n + 3)))
        modality == DsGet(attrs, "Modality", DEFAULT_MODALITY)
        instance_number ==
            Zfill(IF "InstanceNumber" \in DOMAIN attrs
                  THEN IntToStr(attrs["InstanceNumber"]) ELSE DEFAULT_INSTANCE,
                  ZFILL_WIDTH)
        study_date == DsGet(attrs, "StudyDate", DEFAULT_DATE)
    IN  [study_uid |-> study_uid,
         series_uid |-> series_uid,
         sop_instance_uid |-> sop_instance_uid,
         subfolders |-> << get_patient_folder_name(attrs),
                           study_date \o <<"_","E">> \o study_uid,
                           modality \o <<"_","S">> \o series_uid >>,
         filename |-> modality \o <<"_">> \o instance_number \o <<"_">>
                      \o sop_instance_uid \o DCM_SUFFIX]

\* ds.save_as: the blocks the serialisation of the object writes, in order
Serialise(d) == [j \in 1..NumChunks |-> <<d.blob, j>>]

\* --------------------------------------------------------------- state
Procs == 1..NumProcs

VARIABLES
    pc,          \* pc[p]: where thread p stands in handle_store
    ds,          \* ds[p]: event.dataset of the invocation
    gen,         \* gen[p]: identifiers handed out before those of lines 102-104
    level,       \* level[p]: index of the subfolder create_safe_path creates next
    path,        \* path[p]: create_safe_path's path, then safe_path
    fd,          \* fd[p]: inode of the file save_as has open, 0 when none
    offset,      \* offset[p]: blocks save_as has written
    status,      \* status[p]: the value returned, NO_STATUS before the return
    dirs,        \* the directories of the filesystem
    files,       \* the regular files: path -> inode
    inodes,      \* inodes[i]: the blocks of inode i
    uidCount,    \* identifiers generate_uid has handed out
    events,      \* events[p]: what happened in the invocation (history)
    call         \* a call of a text function on its own: function, argument, result

vars == <<pc, ds, gen, level, path, fd, offset, status, dirs, files, inodes,
          uidCount, events, call>>

NoCall == [fn |-> "none", arg |-> <<>>, result |-> <<>>]

\* the state of the server once start_server has run
InitHandler ==
    /\ pc = [p \in Procs |-> "idle"]
    /\ ds = [p \in Procs |-> NoDs]
    /\ gen = [p \in Procs |-> 0]
    /\ level = [p \in Procs |-> 0]
    /\ path = [p \in Procs |-> <<>>]
    /\ fd = [p \in Procs |-> 0]
    /\ offset = [p \in Procs |-> 0]
    /\ status = [p \in Procs |-> NO_STATUS]
    /\ dirs = Ancestors(BasePath)          \* start_server: os.makedirs(output_path)
    /\ files = <<>>
    /\ inodes = <<>>
    /\ uidCount = 0
    /\ events = [p \in Procs |-> {}]

Init == InitHandler /\ call = NoCall

\* the values generate_uid can have handed out before an invocation begins
GenBases == {3 * k : k \in 0..(NumProcs - 1)}

LocTable == [d \in Datasets |-> [n \in GenBases |-> DeriveLocation(Dataset(d).attrs, n)]]

\* the locals of lines 99-125 in invocation p
Loc(p) == LocTable[ds[p]][gen[p]]

\* the operands of the path joins of lines 78 and 126, parsed
PartsTable ==
    [d \in Datasets |-> [n \in GenBases |->
        [subfolders |-> [i \in 1..Len(LocTable[d][n].subfolders) |->
                            PathParts(LocTable[d][n].subfolders[i])],
         filename |-> PathParts(LocTable[d][n].filename)]]]

Parts(p) == PartsTable[ds[p]][gen[p]]

\* filepath = safe_path / filename
filepath(p) == PathJoin(path[p], Parts(p).filename)

IsFile(f) == f \in DOMAIN files
IsDir(f) == f \in dirs

path_exists_never(f) == FALSE
path_is_dir(f) == IsDir(f)
\* Path.exists(), when stat reports no error of its own
path_exists(f) == IsFile(f) \/ IsDir(f)

\* ------------------------------------------------- exceptions and returns
\* Where an exception raised in a step of handle_store is caught, from the
\* nesting of its try blocks: the pc to continue at and the status returned.
OnRaise_Propagates(step) ==
    CASE step = "mkdir"  -> [pc |-> "done", status |-> STATUS_C001]
      [] step = "write"  -> [pc |-> "unlink", status |-> NO_STATUS]
      [] step = "unlink" -> [pc |-> "done", status |-> STATUS_C002]
      [] OTHER           -> [pc |-> "raised", status |-> NO_STATUS]

OnRaise_SameCode(step) ==
    CASE step = "mkdir"  -> [pc |-> "done", status |-> STATUS_C001]
      [] step = "write"  -> [pc |-> "unlink", status |-> NO_STATUS]
      [] OTHER           -> [pc |-> "done", status |-> STATUS_C002]

OnRaise_MkdirIgnored(step) ==
    CASE step = "mkdir"  -> [pc |-> "exists", status |-> NO_STATUS]
      [] step = "write"  -> [pc |-> "unlink", status |-> NO_STATUS]
      [] step = "unlink" -> [pc |-> "done", status |-> STATUS_C002]
      [] OTHER           -> [pc |-> "done", status |-> STATUS_C003]

OnRaise_NoCleanup(step) ==
    CASE step = "mkdir"  -> [pc |-> "done", status |-> STATUS_C001]
      [] step \in {"write", "unlink"} -> [pc |-> "done", status |-> STATUS_C002]
      [] OTHER           -> [pc |-> "done", status |-> STATUS_C003]

OnRaise_Retry(step) ==
    CASE step = "mkdir"  -> [pc |-> "done", status |-> STATUS_C001]
      [] step = "write"  -> [pc |-> "open", status |-> NO_STATUS]
      [] step = "unlink" -> [pc |-> "done", status |-> STATUS_C002]
      [] OTHER           -> [pc |-> "done", status |-> STATUS_C003]

OnRaise(step) ==
    CASE step = "mkdir"  -> [pc |-> "done", status |-> STATUS_C001]   \* 81-83, 120-122
      [] step = "write"  -> [pc |-> "unlink", status |-> NO_STATUS]   \* 138-141
      [] step = "unlink" -> [pc |-> "done", status |-> STATUS_C002]   \* 142-144
      [] OTHER           -> [pc |-> "done", status |-> STATUS_C003]   \* 146-148

\* the status of the return statements reached without an exception
ReturnDuplicate == STATUS_SUCCESS      \* 131
ReturnWritten == STATUS_SUCCESS        \* 137
ReturnWriteFailed == STATUS_C002       \* 144

handle_echo_Failure == STATUS_C003
\* lines 150-153: the status handle_echo returns
handle_echo == STATUS_SUCCESS

Raise(p, step, evs) ==
    /\ pc' = [pc EXCEPT ![p] = OnRaise(step).pc]
    /\ status' = [status EXCEPT ![p] = OnRaise(step).status]
    /\ events' = [events EXCEPT ![p] = @ \cup evs]

Return(p, code, evs) ==
    /\ pc' = [pc EXCEPT ![p] = "done"]
    /\ status' = [status EXCEPT ![p] = code]
    /\ events' = [events EXCEPT ![p] = @ \cup evs]

\* ---------------------------------------------------------------- steps
\* Threads are numbered in the order in which their invocations begin.
MayBegin(p) == pc[p] = "idle" /\ \A q \in Procs : q < p => pc[q] # "idle"

\* lines 95-112: the dataset is decoded and the location derived
Start(p) ==
    /\ MayBegin(p)
    /\ \E d \in Datasets : ds' = [ds EXCEPT ![p] = d]
    /\ gen' = [gen EXCEPT ![p] = uidCount]
    /\ uidCount' = uidCount + 3
    /\ pc' = [pc EXCEPT ![p] = "mkdir"]
    /\ level' = [level EXCEPT ![p] = 1]
    /\ path' = [path EXCEPT ![p] = BasePath]
    /\ UNCHANGED <<fd, offset, status, dirs, files, inodes, events, call>>

\* line 95: decoding event.dataset raises
StartFault(p) ==
    /\ MayBegin(p)
    /\ Raise(p, "derive", {"decode_raised"})
    /\ UNCHANGED <<ds, gen, level, path, fd, offset, dirs, files, inodes, uidCount, call>>

\* lines 150-153: thread p answers a C-ECHO probe
Echo(p) ==
    /\ MayBegin(p)
    /\ Return(p, handle_echo, {"echo"})
    /\ UNCHANGED <<ds, gen, level, path, fd, offset, dirs, files, inodes, uidCount, call>>

MkdirSucceeds_NoExistOk(target) ==
    ~IsDir(target) /\ \A a \in Ancestors(target) : ~IsFile(a)

\* path.mkdir(exist_ok=True, parents=True): whether it succeeds on target
\* when the operating system reports no error of its own
MkdirSucceeds(target) ==
    \A a \in Ancestors(target) : ~IsFile(a)

\* lines 77-80: one turn of the loop of create_safe_path
Mkdir(p) ==
    /\ pc[p] = "mkdir"
    /\ LET target == PathJoin(path[p], Parts(p).subfolders[level[p]])
       IN  IF MkdirSucceeds(target)
           THEN /\ dirs' = dirs \cup Ancestors(target)
                /\ path' = [path EXCEPT ![p] = target]
                /\ events' = events
                /\ IF level[p] = Len(Loc(p).subfolders)
                   THEN /\ pc' = [pc EXCEPT ![p] = "exists"]
                        /\ level' = level
                   ELSE /\ pc' = pc
                        /\ level' = [level EXCEPT ![p] = @ + 1]
                /\ UNCHANGED status
           ELSE /\ Raise(p, "mkdir", {"mkdir_failed"} \cup
                                      (IF IsDir(target) THEN {"target_was_dir"}
                                       ELSE {"blocked_by_file"}))
                /\ UNCHANGED <<dirs, path, level>>
    /\ UNCHANGED <<ds, gen, fd, offset, files, inodes, uidCount, call>>

MkdirFault_Rollback(p) ==
    /\ pc[p] = "mkdir"
    /\ Raise(p, "mkdir", {"mkdir_failed", "os_error"})
    /\ dirs' = dirs \ (Ancestors(path[p]) \ Ancestors(BasePath))
    /\ UNCHANGED <<ds, gen, level, path, fd, offset, files, inodes, uidCount, call>>

\* line 80 raises (permissions, disk full, invalid path)
MkdirFault(p) ==
    /\ pc[p] = "mkdir"
    /\ Raise(p, "mkdir", {"mkdir_failed", "os_error"})
    /\ UNCHANGED <<ds, gen, level, path, fd, offset, dirs, files, inodes, uidCount, call>>

Exists_Unchecked(p) ==
    /\ pc[p] = "exists"
    /\ pc' = [pc EXCEPT ![p] = "open"]
    /\ UNCHANGED <<status, events>>
    /\ UNCHANGED <<ds, gen, level, path, fd, offset, dirs, files, inodes, uidCount, call>>

\* line 129: filepath.exists()
Exists(p) ==
    /\ pc[p] = "exists"
    /\ IF path_exists(filepath(p))
       THEN Return(p, ReturnDuplicate, {"found"})
       ELSE /\ pc' = [pc EXCEPT ![p] = "open"]
            /\ UNCHANGED <<status, events>>
    /\ UNCHANGED <<ds, gen, level, path, fd, offset, dirs, files, inodes, uidCount, call>>

\* line 129 raises (stat fails with an error other than "no such file")
ExistsFault(p) ==
    /\ pc[p] = "exists"
    /\ Raise(p, "exists", {"exists_raised"})
    /\ UNCHANGED <<ds, gen, level, path, fd, offset, dirs, files, inodes, uidCount, call>>

\* the blocks of an inode after a write of block b at position k + 1; a write
\* past the end leaves a hole of zero blocks before it
Hole == <<"zero", 0>>

WriteAt(content, k, b) ==
    [j \in 1..(IF Len(content) > k + 1 THEN Len(content) ELSE k + 1) |->
        IF j = k + 1 THEN b
        ELSE IF j <= Len(content) THEN content[j] ELSE Hole]

\* line 135, save_as opens filepath for writing: created if absent, truncated
\* if present; a directory at filepath or no directory above it makes the
\* open raise
Open(p) ==
    /\ pc[p] = "open"
    /\ LET f == filepath(p)
       IN  IF IsDir(f) \/ ~IsDir(Parent(f))
           THEN /\ Raise(p, "write", {"write_raised"})
                /\ UNCHANGED <<fd, offset, files, inodes>>
           ELSE /\ IF IsFile(f)
                   THEN /\ inodes' = [inodes EXCEPT ![files[f]] = <<>>]
                        /\ fd' = [fd EXCEPT ![p] = files[f]]
                        /\ files' = files
                   ELSE /\ inodes' = Append(inodes, <<>>)
                        /\ fd' = [fd EXCEPT ![p] = Len(inodes) + 1]
                        /\ files' = [g \in DOMAIN files \cup {f} |->
                                        IF g = f THEN Len(inodes) + 1 ELSE files[g]]
                /\ offset' = [offset EXCEPT ![p] = 0]
                /\ pc' = [pc EXCEPT ![p] = "write"]
                /\ UNCHANGED <<status, events>>
    /\ UNCHANGED <<ds, gen, level, path, dirs, uidCount, call>>

\* line 135, one write() of save_as to the open file; after the last one
\* save_as returns and line 137 returns success
Write(p) ==
    /\ pc[p] = "write"
    /\ inodes' = [inodes EXCEPT ![fd[p]] = WriteAt(@, offset[p], Serialise(Dataset(ds[p]))[offset[p] + 1])]
    /\ offset' = [offset EXCEPT ![p] = @ + 1]
    /\ IF offset[p] + 1 = NumChunks
       THEN Return(p, ReturnWritten, {"write_completed"})
       ELSE UNCHANGED <<pc, status, events>>
    /\ UNCHANGED <<ds, gen, level, path, fd, dirs, files, uidCount, call>>

\* line 135 raises, at the open or at a write (disk full, permissions, encoding)
WriteFault(p) ==
    /\ pc[p] \in {"open", "write"}
    /\ Raise(p, "write", {"write_raised"})
    /\ UNCHANGED <<ds, gen, level, path, fd, offset, dirs, files, inodes, uidCount, call>>

\* line 141: filepath.unlink(missing_ok=True); a directory at filepath makes
\* it raise, which lines 142-143 swallow
Unlink(p) ==
    /\ pc[p] = "unlink"
    /\ LET f == filepath(p)
       IN  IF IsDir(f)
           THEN /\ Raise(p, "unlink", {"unlink_raised"})
                /\ files' = files
           ELSE /\ files' = [g \in DOMAIN files \ {f} |-> files[g]]
                /\ Return(p, ReturnWriteFailed, {"unlink_done"})
    /\ UNCHANGED <<ds, gen, level, path, fd, offset, dirs, inodes, uidCount, call>>

\* line 141 raises (permissions, file in use)
UnlinkFault(p) ==
    /\ pc[p] = "unlink"
    /\ Raise(p, "unlink", {"unlink_raised"})
    /\ UNCHANGED <<ds, gen, level, path, fd, offset, dirs, files, inodes, uidCount, call>>

Next ==
    \E p \in Procs :
        \/ Start(p)
        \/ StartFault(p)
        \/ Echo(p)
        \/ Mkdir(p)
        \/ MkdirFault(p)
        \/ Exists(p)
        \/ ExistsFault(p)
        \/ Open(p)
        \/ Write(p)
        \/ WriteFault(p)
        \/ Unlink(p)
        \/ UnlinkFault(p)

Spec == Init /\ [][Next]_vars

\* ------------------------------------------- the text functions on their own
\* the characters of the arguments tried
Alphabet == Forbidden \cup Whitespace \cup {"a", "7", "_"}

RECURSIVE TextsOfLen(_)
TextsOfLen(n) ==
    IF n = 0 THEN {<<>>}
    ELSE {Append(t, c) : t \in TextsOfLen(n - 1), c \in Alphabet}

ShortTexts == UNION {TextsOfLen(n) : n \in 0..MaxTextLen}

RECURSIVE Filler(_)
Filler(n) == IF n = 0 THEN <<>> ELSE <<"x">> \o Filler(n - 1)

\* paddings that bring a text to either side of the two length limits
Fillers == {Filler(0), Filler(UID_SUFFIX_LENGTH - 1), Filler(MAX_FOLDER_LENGTH - 1)}

\* scenario D of the specification
TXT_SCENARIO_D == <<"J","o",":","h","n","/","D","o","e","*">>

TextInputs ==
    {t \o f : t \in ShortTexts, f \in Fillers}
    \cup {f \o t : t \in ShortTexts, f \in Fillers}
    \cup {TXT_SCENARIO_D}

InitText ==
    /\ InitHandler
    /\ call \in [fn : {"none"}, arg : TextInputs, result : {<<>>}]

handlerVars == <<pc, ds, gen, level, path, fd, offset, status, dirs, files, inodes,
                 uidCount, events>>

CallCleanFilename ==
    /\ call.fn = "none"
    /\ call' = [fn |-> "clean_filename", arg |-> call.arg,
                result |-> clean_filename(call.arg)]
    /\ UNCHANGED handlerVars

CallShortenUid ==
    /\ call.fn = "none"
    /\ call' = [fn |-> "shorten_uid", arg |-> call.arg,
                result |-> shorten_uid(call.arg)]
    /\ UNCHANGED handlerVars

NextText == CallCleanFilename \/ CallShortenUid

SpecText == InitText /\ [][NextText]_vars

TypeOK ==
    /\ \A p \in Procs : pc[p] \in {"idle", "mkdir", "exists", "open", "write", "unlink", "done", "raised"}
    /\ \A p \in Procs : status[p] \in StatusCodes \cup {NO_STATUS}

\* ======================================================== properties
Done(p) == pc[p] = "done"

\* the invocation of thread p is one of handle_store
IsStore(p) == "echo" \notin events[p]

FaultEvents == {"decode_raised", "mkdir_failed", "exists_raised", "write_raised", "unlink_raised"}

\* no step of any invocation has failed so far
NoFault == \A p \in Procs : events[p] \cap FaultEvents = {}

UidKeys == {"StudyInstanceUID", "SeriesInstanceUID", "SOPInstanceUID"}

\* the three identifiers are present in the attribute mapping (possibly empty)
HasUids(d) == UidKeys \subseteq DOMAIN Dataset(d).attrs

\* invocation p has derived its location
Derived(p) == ds[p] # NoDs

\* invocation p is past create_safe_path, which gave it a directory
PastMkdir(p) == pc[p] \in {"exists", "open", "write", "unlink"}
                \/ (Done(p) /\ Derived(p) /\ "mkdir_failed" \notin events[p])

\* the blocks of the file at path f
Content(f) == inodes[files[f]]

\* C1: every invocation of handle_store, whatever filesystem step fails, ends
\* with one status code of {0x0000, 0xC001, 0xC002, 0xC003}: no exception
\* leaves the handler, a status is set exactly when the invocation has returned.
Thm_C1 ==
    \A p \in Procs :
        /\ pc[p] # "raised"
        /\ Done(p) => status[p] \in StatusCodes
        /\ ~Done(p) => status[p] = NO_STATUS

\* an invocation returned after a failed existence check, another after a
\* failed write followed by a failed deletion
Wit_C1 ==
    \E p, q \in Procs :
        /\ Done(p) /\ "exists_raised" \in events[p]
        /\ Done(q) /\ {"write_raised", "unlink_raised"} \subseteq events[q]

\* C2: the status returned tells the terminal state: 0x0000 exactly when the
\* object was written or a file was found at the target path, 0xC001 exactly
\* when a directory creation failed, 0xC002 exactly when the write raised,
\* 0xC003 exactly when another step raised; 0xC003 differs from 0xC002.
Thm_C2 ==
    /\ STATUS_C003 # STATUS_C002
    /\ \A p \in Procs : Done(p) /\ IsStore(p) =>
        /\ status[p] = STATUS_SUCCESS <=> events[p] \cap {"found", "write_completed"} # {}
        /\ status[p] = STATUS_C001 <=> "mkdir_failed" \in events[p]
        /\ status[p] = STATUS_C002 <=> "write_raised" \in events[p]
        /\ status[p] = STATUS_C003 <=> events[p] \cap {"decode_raised", "exists_raised"} # {}

Wit_C2 ==
    \E p, q \in Procs :
        /\ status[p] = STATUS_C002 /\ "write_raised" \in events[p]
        /\ status[q] = STATUS_C003 /\ "exists_raised" \in events[q]

\* q makes its existence check after an invocation p of the same instance returned
SecondStore(p, q) ==
    /\ p # q
    /\ Done(p) /\ pc[q] = "exists" /\ pc'[q] # "exists"
    /\ ds[q] = ds[p]
    /\ NoFault /\ NoFault'

\* the second store is a no-op: both invocations succeed, q by the duplicate
\* path, and the paths of the two hold one file, which q's step left alone
RepeatIsNoOp(p, q) ==
    /\ status[p] = STATUS_SUCCESS
    /\ pc'[q] = "done" /\ status'[q] = STATUS_SUCCESS
    /\ "found" \in events'[q] /\ fd'[q] = 0
    /\ files' = files /\ inodes' = inodes
    /\ Cardinality({f \in DOMAIN files' : f = filepath(p) \/ f = filepath(q)}) = 1

\* C3 as stated: persisting the same instance twice, one invocation after the
\* other and without filesystem error, gives one file and two Success
\* outcomes, the second by the duplicate no-op path.
CE_C3 ==
    [][\A p, q \in Procs : SecondStore(p, q) => RepeatIsNoOp(p, q)]_vars

\* C3 amended: the same, for an instance whose Study, Series and SOP Instance
\* UID are all present in the attribute mapping.
Thm_C3 ==
    [][\A p, q \in Procs : SecondStore(p, q) /\ HasUids(ds[p]) => RepeatIsNoOp(p, q)]_vars

Wit_C3 ==
    \E p, q \in Procs :
        /\ p # q /\ ds[p] = ds[q] /\ Derived(p) /\ HasUids(ds[p]) /\ NoFault
        /\ Done(p) /\ "write_completed" \in events[p]
        /\ Done(q) /\ "found" \in events[q]

\* C4: when the existence check finds a file at the target path, the
\* invocation returns Success at once and has not opened, written, replaced
\* or deleted any file: the filesystem is as it was before the check.
Thm_C4 ==
    [][\A q \in Procs :
          (/\ pc[q] = "exists" /\ pc'[q] # "exists"
           /\ IsFile(filepath(q))
           /\ "exists_raised" \notin events'[q])
          => /\ pc'[q] = "done" /\ status'[q] = STATUS_SUCCESS
             /\ fd'[q] = 0 /\ events'[q] = {"found"}
             /\ files' = files /\ inodes' = inodes /\ dirs' = dirs]_vars

\* an invocation found the file of another object and returned
Wit_C4 ==
    \E q \in Procs :
        /\ Done(q) /\ "found" \in events[q]
        /\ IsFile(filepath(q))
        /\ Content(filepath(q)) # Serialise(Dataset(ds[q]))

\* C5: when the creation of a directory level fails, handle_store returns
\* 0xC001 and has neither opened, written nor deleted a file.
Thm_C5 ==
    \A p \in Procs : "mkdir_failed" \in events[p] =>
        /\ Done(p) /\ status[p] = STATUS_C001
        /\ fd[p] = 0 /\ offset[p] = 0
        /\ events[p] \cap {"found", "write_raised", "write_completed",
                           "unlink_done", "unlink_raised"} = {}

\* the creation failed at a level below the patient folder
Wit_C5 ==
    \E p \in Procs : "mkdir_failed" \in events[p] /\ level[p] > 1 /\ Done(p)

\* C6: when the write raises, the invocation attempts to delete the target
\* path and returns 0xC002; a failure of the deletion does not change the
\* status; after a successful deletion the target path does not name a file
\* this invocation wrote to.
Thm_C6 ==
    \A p \in Procs : "write_raised" \in events[p] =>
        /\ pc[p] \in {"unlink", "done"}
        /\ Done(p) => /\ status[p] = STATUS_C002
                      /\ events[p] \cap {"unlink_done", "unlink_raised"} # {}
        /\ "unlink_done" \in events[p] =>
              ~(IsFile(filepath(p)) /\ files[filepath(p)] = fd[p])

\* one invocation deleted the partial file it had written, another failed to
Wit_C6 ==
    \E p, q \in Procs :
        /\ {"write_raised", "unlink_done"} \subseteq events[p] /\ offset[p] > 0
        /\ {"write_raised", "unlink_raised"} \subseteq events[q] /\ Done(q)

\* the invocations p and q both wrote their object to one target path
BothWrote(p, q) ==
    /\ p # q /\ Done(p) /\ Done(q)
    /\ "write_completed" \in events[p] /\ "write_completed" \in events[q]
    /\ filepath(p) = filepath(q)

\* C7 as stated: when two concurrent invocations of one target path both pass
\* the existence check and both write, then once both have finished the file
\* is the complete object of one of them, never a mixture or a partial object.
CE_C7 ==
    \A p, q \in Procs : BothWrote(p, q) =>
        /\ IsFile(filepath(p))
        /\ Content(filepath(p)) \in {Serialise(Dataset(ds[p])), Serialise(Dataset(ds[q]))}

\* C8: directory creation is create-if-absent: no creation fails because the
\* directory exists already (only on an error of the operating system or on a
\* regular file in the way), and invocations of the same patient, study and
\* series get the same series-level directory, which exists.
Thm_C8 ==
    /\ \A p \in Procs : "target_was_dir" \notin events[p]
    /\ \A p \in Procs : "mkdir_failed" \in events[p] =>
          events[p] \cap {"os_error", "blocked_by_file"} # {}
    /\ \A p, q \in Procs :
          PastMkdir(p) /\ PastMkdir(q) /\ Loc(p).subfolders = Loc(q).subfolders
          => path[p] = path[q] /\ IsDir(path[p])

\* two invocations are past the creation of the same three levels at once
Wit_C8 ==
    \E p, q \in Procs :
        /\ p # q /\ pc[p] = "exists" /\ pc[q] = "exists"
        /\ path[p] = path[q] /\ Len(path[p]) = Len(BasePath) + 3

\* C9 as stated: whenever the Study, Series or SOP Instance UID is missing
\* (absent or empty) a generated identifier is used, so the identifier part
\* of the study folder, the series folder and the file name is never empty.
CE_C9 ==
    \A p \in Procs : Derived(p) =>
        /\ Loc(p).study_uid # <<>>
        /\ Loc(p).series_uid # <<>>
        /\ Loc(p).sop_instance_uid # <<>>

SameLocation(p, q) ==
    /\ Loc(p).subfolders = Loc(q).subfolders
    /\ Loc(p).filename = Loc(q).filename

\* C10 as stated: two invocations given the same attribute mapping resolve to
\* the same patient folder, study folder, series folder and file name.
CE_C10 ==
    \A p, q \in Procs :
        Derived(p) /\ Derived(q) /\ Dataset(ds[p]).attrs = Dataset(ds[q]).attrs
        => SameLocation(p, q)

\* C10 amended: the same, for an attribute mapping in which the Study, Series
\* and SOP Instance UID are all present.
Thm_C10 ==
    \A p, q \in Procs :
        Derived(p) /\ Derived(q) /\ Dataset(ds[p]).attrs = Dataset(ds[q]).attrs
        /\ HasUids(ds[p])
        => SameLocation(p, q)

\* two invocations of one instance, begun with different generator states
Wit_C10 ==
    \E p, q \in Procs :
        /\ p # q /\ Derived(p) /\ ds[p] = ds[q] /\ HasUids(ds[p])
        /\ gen[p] # gen[q]

\* ------------------------------------------------ the text functions
Cleaned == call.fn = "clean_filename"
Shortened == call.fn = "shorten_uid"

\* the characters clean_filename is to remove
Unsafe == Forbidden \cup {" "}

\* C11 as stated: clean_filename returns a non-empty token for every input,
\* and the fallback token for an empty or missing one.
CE_C11 ==
    Cleaned =>
        /\ Len(call.result) >= 1
        /\ call.arg = <<>> => call.result = DEFAULT_NAME

\* C12: the output of clean_filename holds none of \ / * ? : " < > | ^ and no
\* space; it is a stretch of the input in which each of these characters
\* is replaced by an underscore and every other character is kept, and
\* Jo:hn/Doe* gives Jo_hn_Doe_.
Thm_C12 ==
    Cleaned =>
        /\ \A i \in 1..Len(call.result) : call.result[i] \notin Unsafe
        /\ call.arg # <<>> =>
              \E k \in 0..Len(call.arg) :
                  \A i \in 1..Len(call.result) :
                      /\ i + k <= Len(call.arg)
                      /\ call.result[i] = IF call.arg[i + k] \in Unsafe THEN "_"
                                          ELSE call.arg[i + k]
        /\ call.arg = TXT_SCENARIO_D =>
              call.result = <<"J","o","_","h","n","_","D","o","e","_">>

\* a name with a space and a forbidden character that both reach the output
Wit_C12 ==
    /\ Cleaned
    /\ Len(call.result) = Len(call.arg)
    /\ \E i, j \in 1..Len(call.arg) :
          call.arg[i] = " " /\ call.arg[j] \in Forbidden

\* C13: the output of clean_filename has at most MAX_FOLDER_LENGTH
\* characters, and they are the leading characters of the sanitized text.
Thm_C13 ==
    Cleaned =>
        /\ Len(call.result) <= MAX_FOLDER_LENGTH
        /\ call.arg # <<>> =>
              LET sanitized == Strip(ReplaceChars(call.arg))
              IN  /\ Len(call.result) <= Len(sanitized)
                  /\ call.result = SubSeq(sanitized, 1, Len(call.result))
                  /\ Len(sanitized) >= MAX_FOLDER_LENGTH
                        => Len(call.result) = MAX_FOLDER_LENGTH

\* a name longer than the cap was cut
Wit_C13 ==
    Cleaned /\ Len(call.arg) > MAX_FOLDER_LENGTH /\ Len(call.result) = MAX_FOLDER_LENGTH

\* C14: shorten_uid returns the trailing 12 characters of an identifier
\* longer than 12 characters and any other identifier unchanged.
Thm_C14 ==
    Shortened =>
        IF Len(call.arg) > UID_SUFFIX_LENGTH
        THEN /\ Len(call.result) = UID_SUFFIX_LENGTH
             /\ \A i \in 1..UID_SUFFIX_LENGTH :
                   call.result[i] = call.arg[Len(call.arg) - UID_SUFFIX_LENGTH + i]
        ELSE call.result = call.arg

\* an identifier of 13 characters whose first and last characters differ
Wit_C14 ==
    /\ Shortened
    /\ Len(call.arg) = UID_SUFFIX_LENGTH + 1
    /\ call.arg[1] # call.arg[Len(call.arg)]

\* ------------------------------------------------------------------ C15
\* the path f lies exactly n segments below the path base
Below(f, base, n) ==
    /\ Len(f) = Len(base) + n
    /\ SubSeq(f, 1, Len(base)) = base

\* C15 (as stated): every file the handler writes lies exactly three
\* directory levels below the output root, its path being the four segments
\* patient folder, study folder, series folder, file name, whatever the
\* metadata values are.
CE_C15 == \A f \in DOMAIN files : Below(f, BasePath, 4)

\* ------------------------------------------------------------------ C16
\* the step taken is thread p answering a probe
EchoStep(p) == "echo" \notin events[p] /\ "echo" \in events'[p]

\* C16: handle_echo answers every probe with status 0x0000 and nothing else
\* (it has no failure path), and the step changes no directory, no file and
\* no file content, whatever the store invocations of other threads are doing.
Thm_C16 ==
    [][\A p \in Procs : EchoStep(p) =>
          /\ pc[p] = "idle" /\ pc'[p] = "done"
          /\ status'[p] = STATUS_SUCCESS
          /\ events'[p] = {"echo"}
          /\ UNCHANGED <<dirs, files, inodes>>
          /\ \A q \in Procs \ {p} :
                UNCHANGED <<pc[q], status[q], events[q], path[q], fd[q], offset[q]>>]_vars

\* a probe was answered while an earlier store invocation was in the middle
\* of writing its file
Wit_C16 ==
    \E p, q \in Procs :
        /\ q < p
        /\ "echo" \in events[p] /\ Done(p) /\ status[p] = STATUS_SUCCESS
        /\ pc[q] = "write" /\ offset[q] > 0 /\ offset[q] < NumChunks

\* ------------------------------------------------------------------ C17
\* the steps of thread p leave its position and locals as they are
Stays(p) ==
    UNCHANGED <<pc[p], status[p], events[p], ds[p], gen[p], level[p], path[p], fd[p], offset[p]>>

\* safe_path of line 113 when the first k levels were created: base_path
\* joined with the first k subfolders
JoinUpTo(parts, k) ==
    IF k = 0 THEN BasePath
    ELSE IF k = 1 THEN PathJoin(BasePath, parts[1])
    ELSE IF k = 2 THEN PathJoin(PathJoin(BasePath, parts[1]), parts[2])
    ELSE PathJoin(PathJoin(PathJoin(BasePath, parts[1]), parts[2]), parts[3])

UpToTable ==
    [d \in Datasets |-> [n \in GenBases |->
        [k \in 0..3 |-> JoinUpTo(PartsTable[d][n].subfolders, k)]]]

PathUpTo(p, k) == UpToTable[ds[p]][gen[p]][k]

\* the positions that may follow position a of handle_store
Successors(a) ==
    CASE a = "idle"   -> {"mkdir", "done"}
      [] a = "mkdir"  -> {"exists", "done"}
      [] a = "exists" -> {"open", "done"}
      [] a = "open"   -> {"write", "unlink"}
      [] a = "write"  -> {"unlink", "done"}
      [] a = "unlink" -> {"done"}
      [] OTHER        -> {}

\* C17: one invocation goes through Start, LocationDerived (creating the
\* directories), DirectoryEnsured (checking for the file), DuplicateChecked
\* (writing), then Written or Failed, in this order: the write begins only
\* from the existence check, only when that check found nothing at the target
\* path, and only with all three levels created; an invocation that has
\* returned takes no further step.
Thm_C17 ==
    [][\A p \in Procs :
          /\ Done(p) => Stays(p)
          /\ pc'[p] # pc[p] => pc'[p] \in Successors(pc[p])
          /\ pc'[p] = "open" /\ pc[p] # "open" =>
                /\ pc[p] = "exists"
                /\ ~path_exists(filepath(p))
                /\ level[p] = 3
                /\ path[p] = PathUpTo(p, 3)
                /\ IsDir(path[p])
                /\ events[p] = {}]_vars

\* an invocation is writing its file, another that came later and resolved
\* to the same path has returned from the existence check
Wit_C17 ==
    \E p, q \in Procs :
        /\ pc[p] = "write" /\ offset[p] > 0
        /\ Done(q) /\ "found" \in events[q]
        /\ filepath(q) = filepath(p)

\* ------------------------------------------------------------------ C18
\* the step taken is one turn of the loop of create_safe_path in thread p
MkdirStep(p) == pc[p] = "mkdir" /\ (pc'[p] # "mkdir" \/ level'[p] # level[p])

\* C18: create_safe_path makes the patient, the study and the series level in
\* this order; a level whose creation fails ends the invocation with 0xC001
\* at once, no later level is attempted, and the directories made before stay;
\* no step of any operation removes a directory.
Thm_C18 ==
    [][/\ dirs \subseteq dirs'
       /\ \A p \in Procs :
            /\ MkdirStep(p) =>
                  /\ level[p] \in 1..3
                  /\ path[p] = PathUpTo(p, level[p] - 1)
                  /\ IsDir(path[p])
                  /\ \/ /\ "mkdir_failed" \in events'[p]
                        /\ pc'[p] = "done" /\ status'[p] = STATUS_C001
                        /\ level'[p] = level[p] /\ path'[p] = path[p]
                        /\ dirs' = dirs
                     \/ /\ "mkdir_failed" \notin events'[p]
                        /\ path'[p] = PathUpTo(p, level[p])
                        /\ path'[p] \in dirs'
                        /\ IF level[p] < 3
                           THEN pc'[p] = "mkdir" /\ level'[p] = level[p] + 1
                           ELSE pc'[p] = "exists" /\ level'[p] = level[p]
            /\ Done(p) => pc'[p] = "done"]_vars

\* the only invocation so far made the patient and the study level and
\* failed at the series level: both directories are still there
Wit_C18 ==
    /\ Done(1) /\ "mkdir_failed" \in events[1] /\ status[1] = STATUS_C001
    /\ level[1] = 3
    /\ path[1] = PathUpTo(1, 2)
    /\ IsDir(path[1])
    /\ PathJoin(path[1], Parts(1).subfolders[3]) \notin dirs
    /\ \A q \in Procs \ {1} : pc[q] = "idle"

\* ------------------------------------------------------------------ C19
\* the filesystem steps of an invocation that has begun
Continue(p) ==
    \/ Mkdir(p) \/ MkdirFault(p)
    \/ Exists(p) \/ ExistsFault(p)
    \/ Open(p) \/ Write(p) \/ WriteFault(p)
    \/ Unlink(p) \/ UnlinkFault(p)

\* every filesystem call of every thread completes or raises
SpecFair == Spec /\ \A p \in Procs : WF_vars(Continue(p))

\* the number of steps invocation p can still take at most: one per
\* directory level left, the existence check, the open, one per block left
\* to write, the deletion
Rank(p) ==
    CASE pc[p] = "idle"   -> NumChunks + 8
      [] pc[p] = "mkdir"  -> NumChunks + 8 - level[p]
      [] pc[p] = "exists" -> NumChunks + 4
      [] pc[p] = "open"   -> NumChunks + 3
      [] pc[p] = "write"  -> NumChunks + 2 - offset[p]
      [] pc[p] = "unlink" -> 1
      [] OTHER            -> 0

\* C19: when every filesystem call completes or raises, every invocation
\* that has begun returns; no step is repeated: each step of an invocation
\* takes it strictly nearer to its return, so that it tries each directory
\* level, the existence check, the write and the deletion at most once,
\* whatever the other threads do.
Thm_C19 ==
    /\ [][\A p \in Procs : Rank(p)' < Rank(p) \/ Stays(p)]_vars
    /\ \A p \in Procs : (pc[p] # "idle") ~> Done(p)

\* an invocation returned after it had made the three levels, checked,
\* opened, written a block, failed and deleted, while another was running
Wit_C19 ==
    \E p, q \in Procs :
        /\ Done(p) /\ "unlink_done" \in events[p] /\ offset[p] > 0
        /\ pc[q] \in {"mkdir", "exists", "open", "write"}

\* ------------------------------------------------------------------ C20
\* C20 (as stated): once an invocation has returned Success for its target
\* path, a file is at that path in every later state, whatever concurrent
\* invocations resolving to the same path do.
CE_C20 ==
    \A p \in Procs :
        Done(p) /\ Derived(p) /\ status[p] = STATUS_SUCCESS
            => path_exists(filepath(p))

====
